---- MODULE Spec2Model ----
(***************************************************************************)
(* Model of the App component of src/src/types.ts: the in-memory document  *)
(* (stories, tools), its load from and debounced save to localStorage,     *)
(* the import merge, and the handlers that change the document.            *)
(*                                                                         *)
(* Every handler is one action: the state updates it queues, the re-render *)
(* they cause and the effects that re-render runs (the save effect of      *)
(* lines 287-320 with its cleanup) happen in the same step, as they do on  *)
(* the single-threaded event loop.  Asynchronous continuations (a promise  *)
(* settling, a FileReader finishing, a timer firing) are separate actions. *)
(***************************************************************************)
EXTENDS Integers, Sequences, FiniteSets, TLC

(* ---------------------------- bounds ---------------------------------- *)
MaxStories == 2      \* longest stories collection explored
MaxTools == 1        \* longest tools collection explored
MaxUuid == 2         \* number of crypto.randomUUID() results drawn
MaxCalls == 1        \* generation calls in flight at once
MaxReads == 1        \* FileReader reads in flight at once
MaxTimerId == 3      \* pool of timer handles
MaxBurst == 2        \* the burst counter saturates here
TickMs == 1000
MaxCharacters == 2
MaxChapters == 2
MaxNarrations == 2
MaxPcmLen == 4
MaxSources == 2       \* granularity of the clock

(* ------------------------ program constants --------------------------- *)
SaveDelay == 1000    \* setTimeout(..., 1000) of the write
IdleDelay == 2000    \* window.setTimeout(..., 2000) of saved -> idle
DefaultChapterCount == 7
DefaultWordCount == 4000

PrimaryKey == "ia-studio-data"
LegacyKey == "ia-story-studio-stories"

LoadErrorMsg == "Nao foi possivel carregar seus dados salvos."
ImportErrorMsg == "Falha ao importar. Verifique o formato do arquivo."
ConceptErrorMsg == "Nao foi possivel gerar o conceito da historia."
CharacterErrorMsg == "Nome e descrição do personagem são obrigatórios."
NarrationErrorMsg == "Não foi possível gerar a narração de áudio."
SynopsisErrorMsg == "Não foi possível gerar a sinopse."
ToolErrorMsg == "Nao foi possivel analisar o prompt da ferramenta."

NoError == "null"    \* error === null
NoStory == "null"    \* activeStoryId === null
NoTimer == 0         \* saveTimeoutRef.current === null / no cleanup registered

VARIABLES
    stories,         \* useState<Story[]>
    tools,           \* useState<MagicTool[]>
    activeStoryId,   \* useState<string | null>
    loading,         \* useState<LoadingTarget | null>
    error,           \* useState<string | null>
    newToolPrompt,   \* useState('')
    saveStatus,      \* useState<'idle' | 'saving' | 'saved'>
    saveTimeoutRef,  \* useRef<number | null>: handle of the saved -> idle timer
    isInitialRender, \* useRef(true)
    effectTimer,     \* `timer` captured by the cleanup of the latest save effect
    timers,          \* the browser's pending timers
    storage,         \* localStorage: key -> value
    mounted,         \* the mount effects have run
    uuidCount,       \* number of UUIDs drawn so far
    calls,           \* generation promises in flight (handleAction awaiting)
    reads,           \* FileReader.readAsText in flight
    burst,           \* history: changes and writes since the debounce window opened
    newCharName,     \* useState(''): the character form's name field
    newCharDesc,     \* useState(''): the character form's description field
    crashed,         \* an exception escaped a render and React unmounted the tree
    players,         \* chapter index -> state and refs of that chapter's AudioPlayer
    sources,         \* AudioBufferSourceNodes started and not yet reported ended
    pcmData,         \* the Uint8Array handed to the codec
    wavArgs,         \* sampleRate, numChannels, bitsPerSample handed to createWavBlob
    audioBuffer,     \* what decodeAudioData produced
    wavBlob          \* what createWavBlob produced

vars == <<stories, tools, activeStoryId, loading, error, newToolPrompt,
          saveStatus, saveTimeoutRef, isInitialRender, effectTimer, timers,
          storage, mounted, uuidCount, calls, reads, burst,
          newCharName, newCharDesc, crashed, players, sources,
          pcmData, wavArgs, audioBuffer, wavBlob>>

appVars == <<stories, tools, activeStoryId, loading, error, newToolPrompt,
             saveStatus, saveTimeoutRef, isInitialRender, effectTimer, timers,
             storage, mounted, uuidCount, calls, reads, burst>>
formVars == <<newCharName, newCharDesc>>
playerVars == <<players, sources>>
codecVars == <<pcmData, wavArgs, audioBuffer, wavBlob>>

(* ------------------------------ data ---------------------------------- *)
Uuid(n) == IF n = 1 THEN "u1" ELSE IF n = 2 THEN "u2" ELSE IF n = 3 THEN "u3" ELSE "u4"

NewStory(id) ==
    [id |-> id, premise |-> "", title |-> "", genre |-> "", summary |-> "",
     authorName |-> "", characters |-> <<>>, chapters |-> <<>>,
     coverImage |-> "", synopsis |-> "", description |-> "", tags |-> <<>>,
     userCoverImage |-> "", userCoverImageMimeType |-> "",
     chapterCount |-> DefaultChapterCount, wordCount |-> DefaultWordCount]

NewTool(id, prompt, result) ==
    [id |-> id, prompt |-> prompt, name |-> result.name,
     description |-> result.description, icon |-> result.icon]

PremiseValues == {"p"}
ToolPromptValues == {"", "tp"}
SynopsisResult == "Y"
ConceptResult == [title |-> "T", genre |-> "G", summary |-> "S"]
ToolAnalysis == [name |-> "N", description |-> "D", icon |-> "I"]

Ids(coll) == {coll[i].id : i \in 1..Len(coll)}

UniqueIds(coll) == \A i, j \in 1..Len(coll) : coll[i].id = coll[j].id => i = j

Truthy(str) == str # ""

\* Chapter fields as handleGenerateChapters initialises them (line 399).  The
\* audio payload is base64 text, kept as a sequence of characters.
NoAudio == <<>>

Chapter(title, content, audio) ==
    [title |-> title, outline |-> "o", content |-> content, audio |-> audio,
     isNarrating |-> FALSE, narrationStyle |-> "padrão"]

\* audioBufferRef.current === null  (line 176)
NoBuffer == [kind |-> "null"]

\* sourceRef.current === null  (line 177)
NoSource == 0

\* AudioPlayer's state and refs when it mounts (lines 174-177).
FreshPlayer ==
    [isPlaying |-> FALSE, audioContextRef |-> FALSE, audioBufferRef |-> NoBuffer,
     sourceRef |-> NoSource]

\* createWavBlob(pcmData, 24000, 1, 16)  (line 442)
DownloadArgs == [sampleRate |-> 24000, numChannels |-> 1, bitsPerSample |-> 16]

(* --------------------------- audio codec ------------------------------ *)
\* A function call that threw.
Thrown(name) == [kind |-> "error", name |-> name]

Base64Alphabet ==
    << "A", "B", "C", "D", "E", "F", "G", "H", "I", "J", "K", "L", "M", "N", "O", "P",
       "Q", "R", "S", "T", "U", "V", "W", "X", "Y", "Z", "a", "b", "c", "d", "e", "f",
       "g", "h", "i", "j", "k", "l", "m", "n", "o", "p", "q", "r", "s", "t", "u", "v",
       "w", "x", "y", "z", "0", "1", "2", "3", "4", "5", "6", "7", "8", "9", "+", "/" >>

Base64Value(c) ==
    IF c = "=" THEN 0 ELSE (CHOOSE k \in 1..64 : Base64Alphabet[k] = c) - 1

\* atob on well-formed padded base64 text, as the char codes of its result:
\* every four characters carry three bytes, less one per "=".
RECURSIVE atob(_)
atob(base64) ==
    IF Len(base64) < 4 THEN <<>>
    ELSE LET n == Base64Value(base64[1]) * 262144 + Base64Value(base64[2]) * 4096
                  + Base64Value(base64[3]) * 64 + Base64Value(base64[4])
             three == <<n \div 65536, (n \div 256) % 256, n % 256>>
             kept == IF base64[3] = "=" THEN 1 ELSE IF base64[4] = "=" THEN 2 ELSE 3
         IN  SubSeq(three, 1, kept) \o atob(SubSeq(base64, 5, Len(base64)))

\* decode: bytes[i] = binaryString.charCodeAt(i)  (lines 65-73)
decode(base64) == LET binaryString == atob(base64)
                  IN  [i \in 1..Len(binaryString) |-> binaryString[i]]

\* An Int16Array element over two bytes of the buffer: two's complement, in
\* the byte order of the platform, which is little-endian wherever browsers run.
Int16LE(lo, hi) ==
    LET u == lo + 256 * hi IN IF u >= 32768 THEN u - 65536 ELSE u

\* dataInt16[i] / 32768.0 is exact in a Float32Array; kept as a fraction.
Sample(int16) == [num |-> int16, den |-> 32768]

\* BaseAudioContext.createBuffer: a zero-filled buffer; it throws
\* NotSupportedError when length is not at least 1.
createBuffer(numberOfChannels, length, sampleRate) ==
    IF length < 1 THEN Thrown("NotSupportedError")
    ELSE [kind |-> "buffer", numberOfChannels |-> numberOfChannels,
          sampleRate |-> sampleRate, length |-> length,
          channelData |-> [i \in 1..length |-> Sample(0)]]

\* lines 75-84.  new Int16Array(data.buffer) throws RangeError when the byte
\* length of the buffer is not a multiple of 2; data is a whole buffer, as
\* decode makes it.
decodeAudioData(data) ==
    IF Len(data) % 2 # 0 THEN Thrown("RangeError")
    ELSE LET frameCount == Len(data) \div 2
             buffer == createBuffer(1, frameCount, 24000)
         IN  IF buffer.kind = "error" THEN buffer
             ELSE [buffer EXCEPT !.channelData =
                      [i \in 1..frameCount |->
                          Sample(Int16LE(data[2 * i - 1], data[2 * i]))]]

\* str.charCodeAt(i) for the characters of the chunk tags
charCodeAt(c) ==
    CASE c = "R" -> 82 [] c = "I" -> 73 [] c = "F" -> 70 [] c = "W" -> 87
      [] c = "A" -> 65 [] c = "V" -> 86 [] c = "E" -> 69 [] c = "f" -> 102
      [] c = "m" -> 109 [] c = "t" -> 116 [] c = " " -> 32 [] c = "d" -> 100
      [] c = "a" -> 97

\* writeString (lines 91-95)
writeString(str) == [i \in 1..Len(str) |-> charCodeAt(str[i])]

\* A number handed to DataView.setUintN, in eighths: it is truncated to an
\* integer and then taken modulo 2^N.
ToInteger(eighths) == eighths \div 8

\* view.setUint16(offset, value, true)
setUint16(eighths) ==
    LET v == ToInteger(eighths) IN <<v % 256, (v \div 256) % 256>>

\* view.setUint32(offset, value, true)
setUint32(eighths) ==
    LET v == ToInteger(eighths)
    IN  <<v % 256, (v \div 256) % 256, (v \div 65536) % 256, (v \div 16777216) % 256>>

CopyPcmReversed(pcmBytes, dataSize) == [i \in 1..dataSize |-> pcmBytes[dataSize + 1 - i]]

\* view.setUint8(44 + i, pcmAsDataView.getUint8(i)) for i < dataSize (lines 119-123)
CopyPcm(pcmBytes, dataSize) == [i \in 1..dataSize |-> pcmBytes[i]]

HeaderSwapsRates(dataSize, sampleRate, numChannels, bitsPerSample) ==
    LET blockAlign8 == numChannels * bitsPerSample
        byteRate8 == sampleRate * blockAlign8
    IN  writeString(<<"R", "I", "F", "F">>) \o setUint32(8 * (36 + dataSize))
            \o writeString(<<"W", "A", "V", "E">>)
            \o writeString(<<"f", "m", "t", " ">>) \o setUint32(8 * 16)
            \o setUint16(8 * 1) \o setUint16(8 * numChannels)
            \o setUint32(byteRate8) \o setUint32(8 * sampleRate)
            \o setUint16(blockAlign8) \o setUint16(8 * bitsPerSample)
            \o writeString(<<"d", "a", "t", "a">>) \o setUint32(8 * dataSize)

\* The 44 header bytes in the order of their offsets (lines 97-117);
\* blockAlign = numChannels * (bitsPerSample / 8) and byteRate need not be
\* whole numbers and are carried in eighths.
Header(dataSize, sampleRate, numChannels, bitsPerSample) ==
    LET blockAlign8 == numChannels * bitsPerSample
        byteRate8 == sampleRate * blockAlign8
    IN  writeString(<<"R", "I", "F", "F">>) \o setUint32(8 * (36 + dataSize))
            \o writeString(<<"W", "A", "V", "E">>)
            \o writeString(<<"f", "m", "t", " ">>) \o setUint32(8 * 16)
            \o setUint16(8 * 1) \o setUint16(8 * numChannels)
            \o setUint32(8 * sampleRate) \o setUint32(byteRate8)
            \o setUint16(blockAlign8) \o setUint16(8 * bitsPerSample)
            \o writeString(<<"d", "a", "t", "a">>) \o setUint32(8 * dataSize)

NoBlob == [type |-> "", bytes |-> <<>>]

HeaderSizeShort(dataSize) == 36 + dataSize

\* new ArrayBuffer(44 + dataSize)  (line 88)
BlobLength(dataSize) == 44 + dataSize

\* lines 86-126
createWavBlob(pcmBytes, sampleRate, numChannels, bitsPerSample) ==
    LET dataSize == Len(pcmBytes)
        written == Header(dataSize, sampleRate, numChannels, bitsPerSample)
                       \o CopyPcm(pcmBytes, dataSize)
    IN  [type |-> "audio/wav",
         bytes |-> [i \in 1..BlobLength(dataSize) |->
                       IF i <= Len(written) THEN written[i] ELSE 0]]

(* --------------------------- JSON text -------------------------------- *)
\* A stored or imported text is absent, unparseable, or the JSON text of a value.
Absent == [kind |-> "absent"]
Corrupt == [kind |-> "corrupt"]

JSONstringify(value) == [kind |-> "json", value |-> value]

JSONparse(text) ==
    IF text.kind = "json" THEN [ok |-> TRUE, value |-> text.value]
    ELSE [ok |-> FALSE]

Arr(items) == [isArray |-> TRUE, items |-> items]
NotArr == [isArray |-> FALSE, items |-> <<>>]

Document(s, t) == [stories |-> Arr(s), tools |-> Arr(t)]

(* ---------------------------- history --------------------------------- *)
NoDoc == [stories |-> <<>>, tools |-> <<>>]

Min(a, b) == IF a < b THEN a ELSE b

(* ----------------------------- timers --------------------------------- *)
\* A pending timer: its handle, what its callback does, the time left and the
\* stories/tools its callback closed over (the render that scheduled it).
Timer(id, kind, left, doc) == [id |-> id, kind |-> kind, left |-> left, doc |-> doc]

LiveIds(ts) == {t.id : t \in ts}

WriteTimers(ts) == {t \in ts : t.kind = "write"}

IdleTimers(ts) == {t \in ts : t.kind = "idle"}

clearTimeoutNoop(ts, id) == ts

\* clearTimeout(handle): a handle that is null, fired or already cleared is a no-op.
clearTimeout(ts, id) == {t \in ts : t.id # id}

\* Handles that may be handed out: not pending and not still held by a reference.
FreeIds(ts, held) == (1..MaxTimerId) \ (LiveIds(ts) \cup held)

NextTimerId(ts, held) ==
    IF FreeIds(ts, held) = {} THEN NoTimer
    ELSE CHOOSE id \in FreeIds(ts, held) : \A other \in FreeIds(ts, held) : id <= other

(* --------------------------- save effect ------------------------------ *)
\* The refs and state the save effect reads and writes.
SaveState ==
    [timers |-> timers, saveTimeoutRef |-> saveTimeoutRef,
     isInitialRender |-> isInitialRender, effectTimer |-> effectTimer,
     saveStatus |-> saveStatus]

SaveEffectCleanupKeepsTimer(st) == clearTimeout(st.timers, st.saveTimeoutRef)

\* Cleanup returned by the previous run of the effect (lines 314-319).
SaveEffectCleanup(st) ==
    IF st.effectTimer = NoTimer THEN st.timers
    ELSE clearTimeout(clearTimeout(st.timers, st.effectTimer), st.saveTimeoutRef)

\* The effect past its first-render guard (lines 293-312, after the cleanup of
\* the previous run): cancel the saved -> idle timer, show saving, schedule
\* the write of this render's stories/tools.
ScheduleWrite(st, s, t) ==
    LET cleaned == clearTimeout(SaveEffectCleanup(st), st.saveTimeoutRef)
        id == NextTimerId(cleaned, {st.saveTimeoutRef})
    IN  [st EXCEPT !.timers = cleaned \cup
                         {Timer(id, "write", SaveDelay, [stories |-> s, tools |-> t])},
                   !.effectTimer = id,
                   !.saveStatus = "saving"]

SaveEffectNoGuard(st, s, t) == [ScheduleWrite(st, s, t) EXCEPT !.isInitialRender = FALSE]

\* One run of the effect for a render whose stories/tools are s, t (lines 287-320).
SaveEffect(st, s, t) ==
    IF st.isInitialRender THEN [st EXCEPT !.isInitialRender = FALSE]
    ELSE ScheduleWrite(st, s, t)

CanSchedule(st) ==
    st.isInitialRender \/
        NextTimerId(clearTimeout(SaveEffectCleanup(st), st.saveTimeoutRef),
                    {st.saveTimeoutRef}) # NoTimer

ApplySave(st) ==
    /\ timers' = st.timers
    /\ saveTimeoutRef' = st.saveTimeoutRef
    /\ isInitialRender' = st.isInitialRender
    /\ effectTimer' = st.effectTimer
    /\ saveStatus' = st.saveStatus

\* History kept beside the effect: a burst is the run of changes made while a
\* scheduled write is still pending; it opens with a change made while none is.
BurstOnChange(st, newStatus) ==
    IF st.isInitialRender THEN burst
    ELSE IF WriteTimers(st.timers) # {}
         THEN [burst EXCEPT !.changes = Min(@ + 1, MaxBurst), !.clock = 0,
                            !.trace = <<>>]
         ELSE [changes |-> 1, writes |-> 0, written |-> Absent, failed |-> FALSE,
               clock |-> 0,
               trace |-> <<[status |-> st.saveStatus, at |-> 0],
                           [status |-> newStatus, at |-> 0]>>]

\* setStories / setTools produced new arrays s, t: re-render, then the save effect.
Changed(s, t) ==
    /\ CanSchedule(SaveState)
    /\ stories' = s
    /\ tools' = t
    /\ ApplySave(SaveEffect(SaveState, s, t))
    /\ burst' = BurstOnChange(SaveState, SaveEffect(SaveState, s, t).saveStatus)

SaveUnchanged ==
    UNCHANGED <<stories, tools, timers, saveTimeoutRef, isInitialRender,
                effectTimer, saveStatus, burst>>

(* --------------------------- load effect ------------------------------ *)
\* The mount effect of lines 265-284, as a function of the store it reads:
\* which setters it calls with what, the error it sets and the store it leaves.
LoadOutcome(setS, s, setT, t, err, store) ==
    [setStories |-> setS, stories |-> s, setTools |-> setT, tools |-> t,
     error |-> err, storage |-> store]

removeItemKeeps(store, key) == store

\* localStorage.removeItem(key)  (line 277)
removeItem(store, key) == [store EXCEPT ![key] = Absent]

LoadFailureDropsSlot(store) ==
    LoadOutcome(FALSE, <<>>, FALSE, <<>>, LoadErrorMsg,
                [k \in DOMAIN store |-> Absent])

\* The catch block (lines 280-283): nothing was set before the throw.
LoadFailure(store) == LoadOutcome(FALSE, <<>>, FALSE, <<>>, LoadErrorMsg, store)

LoadEffect(store) ==
    LET savedData == store[PrimaryKey]
        oldSavedStories == store[LegacyKey]
    IN  IF savedData # Absent
        THEN LET parsed == JSONparse(savedData)
             IN  IF parsed.ok
                 THEN LoadOutcome(parsed.value.stories.isArray, parsed.value.stories.items,
                                  parsed.value.tools.isArray, parsed.value.tools.items,
                                  NoError, store)
                 ELSE LoadFailure(store)
        ELSE IF oldSavedStories # Absent
             THEN LET parsed == JSONparse(oldSavedStories)
                  IN  IF parsed.ok
                      THEN LoadOutcome(TRUE, parsed.value.items, FALSE, <<>>, NoError,
                                       removeItem(store, LegacyKey))
                      ELSE LoadFailure(store)
             ELSE LoadOutcome(FALSE, <<>>, FALSE, <<>>, NoError, store)

\* First commit: the load effect, then the save effect's first run (which only
\* clears isInitialRender); the state the load set re-renders and runs the
\* save effect again.
Mount ==
    /\ ~mounted
    /\ ~crashed
    /\ mounted' = TRUE
    /\ LET out == LoadEffect(storage)
           s == IF out.setStories THEN out.stories ELSE stories
           t == IF out.setTools THEN out.tools ELSE tools
           first == SaveEffect(SaveState, stories, tools)
       IN  /\ storage' = out.storage
           /\ error' = IF out.error # NoError THEN out.error ELSE error
           /\ stories' = s
           /\ tools' = t
           /\ IF out.setStories \/ out.setTools
              THEN /\ ApplySave(SaveEffect(first, s, t))
                   /\ burst' = BurstOnChange(first, SaveEffect(first, s, t).saveStatus)
              ELSE /\ ApplySave(first)
                   /\ UNCHANGED burst
    /\ UNCHANGED <<activeStoryId, loading, newToolPrompt, uuidCount, calls, reads>>
    /\ UNCHANGED <<formVars, crashed, playerVars, codecVars>>

(* --------------------------- active story ----------------------------- *)
\* activeStory = stories.find(s => s.id === activeStoryId)  (line 328)
HasActiveStory == \E i \in 1..Len(stories) : stories[i].id = activeStoryId

activeStory ==
    stories[CHOOSE i \in 1..Len(stories) :
                /\ stories[i].id = activeStoryId
                /\ \A j \in 1..(i - 1) : stories[j].id # activeStoryId]

\* { ...s, ...patch }
Spread(s, patch) == [f \in DOMAIN s |-> IF f \in DOMAIN patch THEN patch[f] ELSE s[f]]

updateActiveStoryDropsOthers(prev, id, patch) ==
    SelectSeq([i \in 1..Len(prev) |-> Spread(prev[i], patch)], LAMBDA s : s.id = id)

\* prev.map(s => s.id === id ? { ...s, ...patch } : s)  (line 331)
updateActiveStory(prev, id, patch) ==
    [i \in 1..Len(prev) |-> IF prev[i].id = id THEN Spread(prev[i], patch) ELSE prev[i]]

\* The same with an updater that reads the story it is applied to:
\* patches[i] is what the updater returns for prev[i].
updateActiveStoryBy(prev, id, patches) ==
    [i \in 1..Len(prev) |->
        IF prev[i].id = id THEN Spread(prev[i], patches[i]) ELSE prev[i]]

HasStory(s, id) == \E i \in 1..Len(s) : s[i].id = id

\* s.find(x => x.id === id)
StoryOf(s, id) ==
    s[CHOOSE i \in 1..Len(s) : s[i].id = id /\ \A j \in 1..(i - 1) : s[j].id # id]

(* ------------------------- rendered players --------------------------- *)
\* The editor renders the chapter list while the story has characters
\* (line 771) and, in it, an AudioPlayer for every written chapter that has
\* an audio payload (line 775).
PlayerShown(s, id, i) ==
    /\ id # NoStory
    /\ HasStory(s, id)
    /\ Len(StoryOf(s, id).characters) > 0
    /\ i \in 1..Len(StoryOf(s, id).chapters)
    /\ Truthy(StoryOf(s, id).chapters[i].content)
    /\ StoryOf(s, id).chapters[i].audio # NoAudio

\* React keeps the state and refs of a player that stays rendered and drops
\* those of a player that is no longer rendered; the player has no cleanup,
\* so a source it started plays on with its handlers attached.
RenderedPlayers(ps, s, id) ==
    [i \in DOMAIN ps |-> IF PlayerShown(s, id, i) THEN ps[i] ELSE FreshPlayer]

RenderedSources(srcs, s, id) ==
    {[x EXCEPT !.orphan = x.orphan \/ ~PlayerShown(s, id, x.index)] : x \in srcs}

Render(s, id) ==
    /\ players' = RenderedPlayers(players, s, id)
    /\ sources' = RenderedSources(sources, s, id)

(* ------------------------- document handlers -------------------------- *)
\* lines 351-360
handleCreateNewStory ==
    /\ mounted
    /\ activeStoryId = NoStory
    /\ uuidCount < MaxUuid
    /\ Len(stories) < MaxStories
    /\ LET newStory == NewStory(Uuid(uuidCount + 1))
       IN  /\ Changed(<<newStory>> \o stories, tools)
           /\ activeStoryId' = newStory.id
    /\ uuidCount' = uuidCount + 1
    /\ UNCHANGED <<loading, error, newToolPrompt, storage, mounted, calls, reads>>
    /\ UNCHANGED <<formVars, crashed, playerVars, codecVars>>

\* Library card click (line 676) and the back button (line 699).
SelectStory(id) ==
    /\ mounted
    /\ activeStoryId = NoStory
    /\ id \in Ids(stories)
    /\ activeStoryId' = id
    /\ UNCHANGED <<loading, error, newToolPrompt, storage, mounted, uuidCount,
                   calls, reads>>
    /\ SaveUnchanged
    /\ UNCHANGED <<formVars, crashed, playerVars, codecVars>>

BackToLibrary ==
    /\ mounted
    /\ activeStoryId # NoStory
    /\ activeStoryId' = NoStory
    /\ Render(stories, NoStory)
    /\ UNCHANGED <<loading, error, newToolPrompt, storage, mounted, uuidCount,
                   calls, reads>>
    /\ SaveUnchanged
    /\ UNCHANGED <<formVars, crashed, codecVars>>

\* The premise textarea's onChange (line 704).
EditPremise(v) ==
    /\ mounted
    /\ HasActiveStory
    /\ activeStory.premise # v
    /\ Changed(updateActiveStory(stories, activeStoryId, [premise |-> v]), tools)
    /\ UNCHANGED <<activeStoryId, loading, error, newToolPrompt, storage, mounted,
                   uuidCount, calls, reads>>
    /\ UNCHANGED <<formVars, crashed, playerVars, codecVars>>

\* lines 621-623
handleRemoveTool(toolId) ==
    /\ mounted
    /\ toolId \in Ids(tools)
    /\ Changed(stories, SelectSeq(tools, LAMBDA tool : tool.id # toolId))
    /\ UNCHANGED <<activeStoryId, loading, error, newToolPrompt, storage, mounted,
                   uuidCount, calls, reads>>
    /\ UNCHANGED <<formVars, crashed, playerVars, codecVars>>

\* The error banner's close button (line 646).
DismissError ==
    /\ mounted
    /\ error # NoError
    /\ error' = NoError
    /\ UNCHANGED <<activeStoryId, loading, newToolPrompt, storage, mounted,
                   uuidCount, calls, reads>>
    /\ SaveUnchanged
    /\ UNCHANGED <<formVars, crashed, playerVars, codecVars>>

(* ------------------------- generation calls --------------------------- *)
\* A promise handleAction awaits: the loading target's type and index, what
\* the onSuccess closure captured, and how often the collaborator was invoked
\* for it (apiCall() is called once, line 342).
Call(type, storyId, prompt) ==
    [type |-> type, index |-> 0, storyId |-> storyId, prompt |-> prompt, attempts |-> 1]

NarrateCall(storyId, chapterIndex) ==
    [Call("audio", storyId, "") EXCEPT !.index = chapterIndex]

NotLoading == [type |-> "null"]

RemoveAt(seq, i) == SubSeq(seq, 1, i - 1) \o SubSeq(seq, i + 1, Len(seq))

ConceptPatchClearsCharacters(result) ==
    [title |-> result.title, genre |-> result.genre, summary |-> result.summary,
     chapters |-> <<>>, synopsis |-> "", description |-> "", tags |-> <<>>,
     characters |-> <<>>]

\* What a successful concept generation writes into the story (lines 367-373).
ConceptPatch(result) ==
    [title |-> result.title, genre |-> result.genre, summary |-> result.summary,
     chapters |-> <<>>, synopsis |-> "", description |-> "", tags |-> <<>>]

\* handleGenerateConcept up to the await inside handleAction (lines 362-366, 339-342).
\* The onSuccess closure keeps the activeStoryId of the render it was made in.
handleGenerateConcept ==
    /\ mounted
    /\ HasActiveStory
    /\ Truthy(activeStory.premise)
    /\ Len(calls) < MaxCalls
    /\ loading' = [type |-> "concept"]
    /\ error' = NoError
    /\ calls' = Append(calls, Call("concept", activeStoryId, ""))
    /\ UNCHANGED <<activeStoryId, newToolPrompt, storage, mounted, uuidCount, reads>>
    /\ SaveUnchanged
    /\ UNCHANGED <<formVars, crashed, playerVars, codecVars>>

\* The tool prompt textarea's onChange.
SetNewToolPrompt(v) ==
    /\ mounted
    /\ newToolPrompt # v
    /\ newToolPrompt' = v
    /\ UNCHANGED <<activeStoryId, loading, error, storage, mounted, uuidCount,
                   calls, reads>>
    /\ SaveUnchanged
    /\ UNCHANGED <<formVars, crashed, playerVars, codecVars>>

\* handleCreateTool up to the await (lines 593-597, 339-342).
handleCreateTool ==
    /\ mounted
    /\ Truthy(newToolPrompt)
    /\ Len(calls) < MaxCalls
    /\ loading' = [type |-> "tool_analysis"]
    /\ error' = NoError
    /\ calls' = Append(calls, Call("tool_analysis", NoStory, newToolPrompt))
    /\ UNCHANGED <<activeStoryId, newToolPrompt, storage, mounted, uuidCount, reads>>
    /\ SaveUnchanged
    /\ UNCHANGED <<formVars, crashed, playerVars, codecVars>>

\* Base64 payloads narrateText may return: the 16-bit samples 0, -32768 and
\* 1, 32767 (bytes 00 00 00 80 and 01 00 FF 7F).
AudioPayloads ==
    { <<"A", "A", "A", "A", "g", "A", "=", "=">>,
      <<"A", "Q", "D", "/", "f", "w", "=", "=">> }

\* The narrate button of a written chapter without audio; it is disabled
\* while loading is this chapter's audio target (line 775).
NarrateButtonEnabled(chapterIndex) ==
    /\ mounted
    /\ HasActiveStory
    /\ Len(activeStory.characters) > 0
    /\ chapterIndex \in 1..Len(activeStory.chapters)
    /\ Truthy(activeStory.chapters[chapterIndex].content)
    /\ activeStory.chapters[chapterIndex].audio = NoAudio
    /\ loading # [type |-> "audio", index |-> chapterIndex]

\* handleNarrate up to the await inside handleAction (lines 428-431, 339-342).
handleNarrate(chapterIndex) ==
    /\ NarrateButtonEnabled(chapterIndex)
    /\ Len(calls) < MaxNarrations
    /\ loading' = [type |-> "audio", index |-> chapterIndex]
    /\ error' = NoError
    /\ calls' = Append(calls, NarrateCall(activeStoryId, chapterIndex))
    /\ UNCHANGED <<activeStoryId, newToolPrompt, storage, mounted, uuidCount, reads>>
    /\ SaveUnchanged
    /\ UNCHANGED <<formVars, crashed, playerVars, codecVars>>

\* newChapters = [...story.chapters]; newChapters[chapterIndex].audio = audio
\* (lines 432-434)
AudioPatch(story, chapterIndex, audio) ==
    [chapters |-> [story.chapters EXCEPT ![chapterIndex].audio = audio]]

\* The updater throws (newChapters[chapterIndex] is undefined) when the story
\* no longer has that chapter.
AudioPatchThrows(s, storyId, chapterIndex) ==
    \E k \in 1..Len(s) : s[k].id = storyId /\ chapterIndex > Len(s[k].chapters)

\* An exception thrown by a state updater escapes the render and React
\* unmounts the whole tree: effect cleanups run (lines 314-319), nothing of
\* the batch is committed and no handler can run any more.
RenderThrows ==
    /\ crashed' = TRUE
    /\ mounted' = FALSE
    /\ timers' = SaveEffectCleanup(SaveState)
    /\ UNCHANGED <<stories, tools, burst, loading, newToolPrompt, uuidCount, players,
                   saveTimeoutRef, isInitialRender, effectTimer, saveStatus>>
    /\ sources' = {[x EXCEPT !.orphan = TRUE] : x \in sources}

\* The synopsis button of the marketing section, shown while the story has
\* a title and no synopsis and disabled while a synopsis is loading (lines
\* 781, 792); handleGenerateSynopsis up to the await (lines 453-456, 339-342).
handleGenerateSynopsis ==
    /\ mounted
    /\ HasActiveStory
    /\ Truthy(activeStory.title)
    /\ Truthy(activeStory.summary)
    /\ ~Truthy(activeStory.synopsis)
    /\ loading.type # "synopsis"
    /\ Len(calls) < MaxCalls
    /\ loading' = [type |-> "synopsis"]
    /\ error' = NoError
    /\ calls' = Append(calls, Call("synopsis", activeStoryId, ""))
    /\ UNCHANGED <<activeStoryId, newToolPrompt, storage, mounted, uuidCount, reads>>
    /\ SaveUnchanged
    /\ UNCHANGED <<formVars, crashed, playerVars, codecVars>>

CurrentStoryId(call, active) == active

\* The story id updateActiveStory compares with: the activeStoryId of the
\* render whose handler made the onSuccess closure (lines 330-332).
CapturedStoryId(call, active) == call.storyId

\* The awaited promise resolves: onSuccess, then finally (lines 343, 347).
CallResolves(i) ==
    /\ ~crashed
    /\ i \in 1..Len(calls)
    /\ calls' = RemoveAt(calls, i)
    /\ CASE calls[i].type = "concept" ->
            /\ Changed(updateActiveStory(stories,
                                         CapturedStoryId(calls[i], activeStoryId),
                                         ConceptPatch(ConceptResult)), tools)
            /\ Render(stories', activeStoryId)
            /\ loading' = NotLoading
            /\ UNCHANGED <<newToolPrompt, uuidCount, mounted, crashed>>
         [] calls[i].type = "synopsis" ->
            /\ Changed(updateActiveStory(stories,
                                         CapturedStoryId(calls[i], activeStoryId),
                                         [synopsis |-> SynopsisResult]), tools)
            /\ loading' = NotLoading
            /\ UNCHANGED <<newToolPrompt, uuidCount, mounted, crashed, playerVars>>
         [] calls[i].type = "audio" ->
            IF AudioPatchThrows(stories, CapturedStoryId(calls[i], activeStoryId),
                                calls[i].index)
            THEN RenderThrows
            ELSE /\ \E audio \in AudioPayloads :
                        Changed(updateActiveStoryBy(stories,
                                    CapturedStoryId(calls[i], activeStoryId),
                                    [k \in 1..Len(stories) |->
                                        AudioPatch(stories[k], calls[i].index, audio)]),
                                tools)
                 /\ Render(stories', activeStoryId)
                 /\ loading' = NotLoading
                 /\ UNCHANGED <<newToolPrompt, uuidCount, mounted, crashed>>
         [] OTHER ->
            /\ uuidCount < MaxUuid
            /\ Len(tools) < MaxTools
            /\ Changed(stories,
                       <<NewTool(Uuid(uuidCount + 1), calls[i].prompt, ToolAnalysis)>>
                           \o tools)
            /\ uuidCount' = uuidCount + 1
            /\ newToolPrompt' = ""
            /\ loading' = NotLoading
            /\ UNCHANGED <<playerVars, mounted, crashed>>
    /\ UNCHANGED <<activeStoryId, error, storage, reads>>
    /\ UNCHANGED <<formVars, codecVars>>

\* throw new Error(...) in the catch of each service function
\* (part_000 lines 28, 129, 332).
ErrorMessage(type) ==
    CASE type = "concept" -> ConceptErrorMsg
      [] type = "audio" -> NarrationErrorMsg
      [] type = "synopsis" -> SynopsisErrorMsg
      [] OTHER -> ToolErrorMsg

CatchOutcome(err, load, again) == [error |-> err, loading |-> load, again |-> again]

HandleActionCatchRetries(call) ==
    CatchOutcome(NoError, IF call.type = "audio"
                          THEN [type |-> call.type, index |-> call.index]
                          ELSE [type |-> call.type],
                 <<[call EXCEPT !.attempts = call.attempts + 1]>>)

\* catch: setError(err.message); finally: setLoading(null); apiCall is not
\* invoked again (lines 344-347).
HandleActionCatch(call) == CatchOutcome(ErrorMessage(call.type), NotLoading, <<>>)

\* The awaited promise rejects: catch, then finally (lines 344-347).  The
\* service rethrows every failure with the operation's own message.
CallRejects(i) ==
    /\ ~crashed
    /\ i \in 1..Len(calls)
    /\ LET out == HandleActionCatch(calls[i])
       IN  /\ calls' = RemoveAt(calls, i) \o out.again
           /\ loading' = out.loading
           /\ error' = out.error
    /\ UNCHANGED <<activeStoryId, newToolPrompt, storage, mounted, uuidCount, reads>>
    /\ SaveUnchanged
    /\ UNCHANGED <<formVars, crashed, playerVars, codecVars>>

(* ---------------------------- AudioPlayer ----------------------------- *)
\* An AudioBufferSourceNode that was started: the player (chapter index) and
\* story whose handlers its onended closure holds, the buffer it plays, and
\* whether it is playing, was halted by stop() or ran to the end of its
\* buffer; in the last two cases its ended event is queued, not yet delivered.
Source(id, index, storyId, buffer) ==
    [id |-> id, index |-> index, storyId |-> storyId, buffer |-> buffer,
     state |-> "playing", orphan |-> FALSE]

\* Node identities: never one that is alive or that a player's sourceRef holds.
FreeSourceIds ==
    (1..MaxSources) \ ({x.id : x \in sources} \cup
                       {players[i].sourceRef : i \in DOMAIN players})

NewSourceId == CHOOSE id \in FreeSourceIds : \A other \in FreeSourceIds : id <= other

\* story.chapters.map((ch, idx) => ({ ...ch, isNarrating: idx === chapterIndex
\* && isPlaying }))  (lines 502-504)
PlaybackPatch(story, chapterIndex, isPlaying) ==
    [chapters |-> [idx \in 1..Len(story.chapters) |->
                      [story.chapters[idx] EXCEPT
                          !.isNarrating = (idx = chapterIndex /\ isPlaying)]]]

\* handlePlaybackChange as the closure made in the editor of story storyId
\* (lines 501-505)
handlePlaybackChange(storyId, chapterIndex, isPlaying) ==
    Changed(updateActiveStoryBy(stories, storyId,
                [k \in 1..Len(stories) |->
                    PlaybackPatch(stories[k], chapterIndex, isPlaying)]),
            tools)

\* audioBufferRef.current after the lazy decode (lines 188-192)
BufferFor(ref, audioBase64) ==
    IF ref = NoBuffer THEN decodeAudioData(decode(audioBase64)) ELSE ref

\* sourceRef.current?.stop()  (line 185): the node stops and its ended
\* event is queued; a node that already stopped stays as it is.
stop(srcs, id) ==
    {IF x.id = id /\ x.state = "playing" THEN [x EXCEPT !.state = "halted"] ELSE x :
        x \in srcs}

\* A click on the player's button (lines 179-206).  The await resumes in a
\* microtask, so no other handler runs inside the call.
togglePlay(i) ==
    /\ mounted
    /\ PlayerShown(stories, activeStoryId, i)
    /\ IF players[i].isPlaying
       THEN /\ sources' = stop(sources, players[i].sourceRef)
            /\ players' = [players EXCEPT ![i].audioContextRef = TRUE,
                                          ![i].isPlaying = FALSE]
            /\ handlePlaybackChange(activeStoryId, i, FALSE)
       ELSE LET buffer == BufferFor(players[i].audioBufferRef,
                                    activeStory.chapters[i].audio)
            IN  IF buffer.kind = "error"
                THEN /\ players' = [players EXCEPT ![i].audioContextRef = TRUE]
                     /\ UNCHANGED sources
                     /\ SaveUnchanged
                ELSE /\ FreeSourceIds # {}
                     /\ sources' = sources \cup
                            {Source(NewSourceId, i, activeStoryId, buffer)}
                     /\ players' = [players EXCEPT ![i].audioContextRef = TRUE,
                                                   ![i].audioBufferRef = buffer,
                                                   ![i].sourceRef = NewSourceId,
                                                   ![i].isPlaying = TRUE]
                     /\ handlePlaybackChange(activeStoryId, i, TRUE)
    /\ UNCHANGED <<activeStoryId, loading, error, newToolPrompt, storage, mounted,
                   uuidCount, calls, reads>>
    /\ UNCHANGED <<formVars, crashed, codecVars>>

\* The audio thread reaches the end of the buffer and queues the ended event.
PlaybackFinishes(x) ==
    /\ x \in sources
    /\ x.state = "playing"
    /\ sources' = (sources \ {x}) \cup {[x EXCEPT !.state = "finished"]}
    /\ UNCHANGED <<appVars, formVars, crashed, players, codecVars>>

\* source.onended (lines 198-201), for a node that was halted or finished:
\* setIsPlaying(false) reaches the player that started the node if it is
\* still rendered, onPlaybackChange(false) the story of its editor.
SourceEnded(x) ==
    /\ ~crashed
    /\ x \in sources
    /\ x.state # "playing"
    /\ sources' = sources \ {x}
    /\ players' = IF x.orphan THEN players
                  ELSE [players EXCEPT ![x.index].isPlaying = FALSE]
    /\ handlePlaybackChange(x.storyId, x.index, FALSE)
    /\ UNCHANGED <<activeStoryId, loading, error, newToolPrompt, storage, mounted,
                   uuidCount, calls, reads>>
    /\ UNCHANGED <<formVars, crashed, codecVars>>

(* ------------------------------ import -------------------------------- *)
SavedStory == [NewStory("s1") EXCEPT !.premise = "p"]
SavedTool == NewTool("k1", "tp", ToolAnalysis)
OldStory == [NewStory("o1") EXCEPT !.title = "old"]

ImportedA == [NewStory("a") EXCEPT !.premise = "p"]
ImportedA2 == [NewStory("a") EXCEPT !.title = "twin"]
ImportedB == [NewStory("b") EXCEPT !.premise = "p"]
ImportedNoId == [NewStory("") EXCEPT !.title = "anon"]
ImportedS1 == [NewStory("s1") EXCEPT !.title = "other"]
ImportedK1 == NewTool("k1", "other", ToolAnalysis)

\* The files the user may pick: unparseable text; a document that repeats a
\* new id and whose tools are not an array; a document with an entry without
\* id, an entry whose id may already be stored, and a new entry.
ImportFiles ==
    << Corrupt,
       JSONstringify([stories |-> Arr(<<ImportedA, ImportedA2>>), tools |-> NotArr]),
       JSONstringify([stories |-> Arr(<<ImportedNoId, ImportedS1, ImportedB>>),
                      tools |-> Arr(<<ImportedK1>>)]) >>

ImportMergeOverwrites(prev, imported) ==
    LET Latest(e) ==
            IF \E k \in 1..Len(imported) : imported[k].id = e.id
            THEN imported[CHOOSE k \in 1..Len(imported) : imported[k].id = e.id]
            ELSE e
    IN  [i \in 1..Len(prev) |-> Latest(prev[i])]
            \o SelectSeq(imported, LAMBDA e : Truthy(e.id) /\ e.id \notin Ids(prev))

\* [...prev, ...imported.filter(e => e.id && !existingIds.has(e.id))]
\* (lines 525-528 for stories, 531-534 for tools)
ImportMerge(prev, imported) ==
    LET existingIds == Ids(prev)
    IN  prev \o SelectSeq(imported, LAMBDA e : Truthy(e.id) /\ e.id \notin existingIds)

\* The body of reader.onload (lines 522-538) as a function of the current
\* collections and the file's text: the setters it calls and the error it sets.
ImportOutcome(ok, setS, s, setT, t, err) ==
    [ok |-> ok, setStories |-> setS, stories |-> s, setTools |-> setT, tools |-> t,
     error |-> err]

ImportFailureSilent(prevStories, prevTools, prevError) ==
    ImportOutcome(FALSE, FALSE, prevStories, FALSE, prevTools, prevError)

\* The catch block (lines 536-538): JSON.parse threw before any setter ran.
ImportFailure(prevStories, prevTools, prevError) ==
    ImportOutcome(FALSE, FALSE, prevStories, FALSE, prevTools, ImportErrorMsg)

ImportEffect(prevStories, prevTools, text, prevError) ==
    LET imported == JSONparse(text)
    IN  IF ~imported.ok
        THEN ImportFailure(prevStories, prevTools, prevError)
        ELSE LET setS == imported.value.stories.isArray
                 setT == imported.value.tools.isArray
             IN  ImportOutcome(TRUE,
                     setS, IF setS THEN ImportMerge(prevStories, imported.value.stories.items)
                           ELSE prevStories,
                     setT, IF setT THEN ImportMerge(prevTools, imported.value.tools.items)
                           ELSE prevTools,
                     prevError)

\* handleImport: the file input's onChange starts the read (lines 517-520, 540).
handleImport(f) ==
    /\ mounted
    /\ activeStoryId = NoStory
    /\ f \in 1..Len(ImportFiles)
    /\ Len(reads) < MaxReads
    /\ reads' = Append(reads, f)
    /\ UNCHANGED <<activeStoryId, loading, error, newToolPrompt, storage, mounted,
                   uuidCount, calls>>
    /\ SaveUnchanged
    /\ UNCHANGED <<formVars, crashed, playerVars, codecVars>>

\* reader.onload (lines 521-539)
ReaderOnload(i) ==
    /\ ~crashed
    /\ i \in 1..Len(reads)
    /\ reads' = RemoveAt(reads, i)
    /\ LET out == ImportEffect(stories, tools, ImportFiles[reads[i]], error)
       IN  /\ Len(out.stories) <= MaxStories
           /\ Len(out.tools) <= MaxTools
           /\ error' = out.error
           /\ IF out.setStories \/ out.setTools
              THEN Changed(out.stories, out.tools)
              ELSE SaveUnchanged
    /\ UNCHANGED <<activeStoryId, loading, newToolPrompt, storage, mounted,
                   uuidCount, calls>>
    /\ UNCHANGED <<formVars, crashed, playerVars, codecVars>>

(* --------------------------- timers firing ---------------------------- *)
AppendTrace(status) ==
    IF burst.trace = <<>> THEN <<>>
    ELSE Append(burst.trace, [status |-> status, at |-> burst.clock])

setItemPartial(store, key, text, ok) == [store EXCEPT ![key] = text]

setItemDropped(store, key, text, ok) == store

\* localStorage.setItem(key, text) either stores the text or throws (quota
\* exceeded) and leaves the store as it was (line 301).
setItem(store, key, text, ok) == IF ok THEN [store EXCEPT ![key] = text] ELSE store

StatusAfterWriteIdle(ok) == "idle"

StatusAfterWriteSaved(ok) == "saved"

\* setSaveStatus('saved') after the write, setSaveStatus('idle') in the catch
\* (lines 302, 310).
StatusAfterWrite(ok) == IF ok THEN "saved" ELSE "idle"

StoreIdleHandleDropped(ref, id) == ref

\* saveTimeoutRef.current = window.setTimeout(...)  (line 304)
StoreIdleHandle(ref, id) == id

\* The write timer's callback (lines 298-312).
WriteFires(t, ok) ==
    /\ t \in WriteTimers(timers)
    /\ t.left = 0
    /\ LET text == JSONstringify(Document(t.doc.stories, t.doc.tools))
           rest == timers \ {t}
           id == NextTimerId(rest, {effectTimer})
       IN  /\ storage' = setItem(storage, PrimaryKey, text, ok)
           /\ saveStatus' = StatusAfterWrite(ok)
           /\ IF ok
              THEN /\ id # NoTimer
                   /\ timers' = rest \cup {Timer(id, "idle", IdleDelay, NoDoc)}
                   /\ saveTimeoutRef' = StoreIdleHandle(saveTimeoutRef, id)
              ELSE /\ timers' = rest
                   /\ UNCHANGED saveTimeoutRef
           /\ burst' = [burst EXCEPT !.writes = Min(@ + 1, 2),
                                     !.written = text,
                                     !.failed = @ \/ ~ok,
                                     !.trace = AppendTrace(StatusAfterWrite(ok))]
    /\ UNCHANGED <<stories, tools, activeStoryId, loading, error, newToolPrompt,
                   isInitialRender, effectTimer, mounted, uuidCount, calls, reads>>
    /\ UNCHANGED <<formVars, crashed, playerVars, codecVars>>

\* The saved -> idle timer's callback (lines 304-306).
IdleFires(t) ==
    /\ t \in IdleTimers(timers)
    /\ t.left = 0
    /\ saveStatus' = "idle"
    /\ timers' = timers \ {t}
    /\ burst' = [burst EXCEPT !.trace = AppendTrace("idle")]
    /\ UNCHANGED <<stories, tools, activeStoryId, loading, error, newToolPrompt,
                   saveTimeoutRef, isInitialRender, effectTimer, storage, mounted,
                   uuidCount, calls, reads>>
    /\ UNCHANGED <<formVars, crashed, playerVars, codecVars>>

\* Time passes; a timer that is due fires before more time passes.
Tick ==
    /\ timers # {}
    /\ \A t \in timers : t.left > 0
    /\ timers' = {[t EXCEPT !.left = IF @ > TickMs THEN @ - TickMs ELSE 0] : t \in timers}
    /\ burst' = [burst EXCEPT !.clock = IF burst.trace = <<>> THEN @ ELSE @ + TickMs]
    /\ UNCHANGED <<stories, tools, activeStoryId, loading, error, newToolPrompt,
                   saveStatus, saveTimeoutRef, isInitialRender, effectTimer,
                   storage, mounted, uuidCount, calls, reads>>
    /\ UNCHANGED <<formVars, crashed, playerVars, codecVars>>

(* -------------------------- character form ---------------------------- *)
\* Form text is a sequence of characters, so that trimming is computed.
Whitespace == {" ", "\t", "\n"}

RECURSIVE trimStart(_)
trimStart(str) ==
    IF str # <<>> /\ Head(str) \in Whitespace THEN trimStart(Tail(str)) ELSE str

RECURSIVE trimEnd(_)
trimEnd(str) ==
    IF str # <<>> /\ str[Len(str)] \in Whitespace
    THEN trimEnd(SubSeq(str, 1, Len(str) - 1))
    ELSE str

trimNothing(str) == str

\* String.prototype.trim (line 379)
trim(str) == trimEnd(trimStart(str))

\* What the user may type into either field.
FieldValues == {<<>>, <<" ">>, <<"a">>, <<" ", "b", "\n">>}

\* The form is rendered in the editor once the story has a summary (line 735).
CharacterFormShown == mounted /\ HasActiveStory /\ Truthy(activeStory.summary)

\* onChange of the name input (line 742)
setNewCharName(v) ==
    /\ CharacterFormShown
    /\ newCharName # v
    /\ newCharName' = v
    /\ UNCHANGED <<activeStoryId, loading, error, newToolPrompt, storage, mounted,
                   uuidCount, calls, reads, newCharDesc>>
    /\ SaveUnchanged
    /\ UNCHANGED <<crashed, playerVars, codecVars>>

\* onChange of the description input (line 746)
setNewCharDesc(v) ==
    /\ CharacterFormShown
    /\ newCharDesc # v
    /\ newCharDesc' = v
    /\ UNCHANGED <<activeStoryId, loading, error, newToolPrompt, storage, mounted,
                   uuidCount, calls, reads, newCharName>>
    /\ SaveUnchanged
    /\ UNCHANGED <<crashed, playerVars, codecVars>>

\* const newCharacter = { name: newCharName, description: newCharDesc }  (line 383)
Character(name, description) == [name |-> name, description |-> description]

\* lines 377-389
handleAddCharacter ==
    /\ CharacterFormShown
    /\ IF trim(newCharName) = <<>> \/ trim(newCharDesc) = <<>>
       THEN /\ error' = CharacterErrorMsg
            /\ UNCHANGED formVars
            /\ SaveUnchanged
       ELSE /\ Len(activeStory.characters) < MaxCharacters
            /\ Changed(updateActiveStoryBy(stories, activeStoryId,
                           [k \in 1..Len(stories) |->
                               [characters |-> Append(stories[k].characters,
                                                      Character(newCharName, newCharDesc))]]),
                       tools)
            /\ newCharName' = <<>>
            /\ newCharDesc' = <<>>
            /\ UNCHANGED error
    /\ UNCHANGED <<activeStoryId, loading, newToolPrompt, storage, mounted,
                   uuidCount, calls, reads>>
    /\ UNCHANGED <<crashed, playerVars, codecVars>>

\* lines 391-395: the remove button of the character at indexToRemove (line 760)
handleRemoveCharacter(indexToRemove) ==
    /\ CharacterFormShown
    /\ indexToRemove \in 1..Len(activeStory.characters)
    /\ Changed(updateActiveStoryBy(stories, activeStoryId,
                   [k \in 1..Len(stories) |->
                       [characters |-> RemoveAt(stories[k].characters, indexToRemove)]]),
               tools)
    /\ Render(stories', activeStoryId)
    /\ UNCHANGED <<activeStoryId, loading, error, newToolPrompt, storage, mounted,
                   uuidCount, calls, reads>>
    /\ UNCHANGED <<formVars, crashed, codecVars>>

(* -------------------------- specification ----------------------------- *)
PrimaryValues == {Absent, Corrupt, JSONstringify(Document(<<SavedStory>>, <<SavedTool>>))}

LegacyValues == {Absent, Corrupt, JSONstringify(Arr(<<OldStory>>))}

\* The component state after construction, before any effect has run.
InitMemory ==
    /\ stories = <<>>
    /\ tools = <<>>
    /\ activeStoryId = NoStory
    /\ loading = NotLoading
    /\ error = NoError
    /\ newToolPrompt = ""
    /\ saveStatus = "idle"
    /\ saveTimeoutRef = NoTimer
    /\ isInitialRender = TRUE
    /\ effectTimer = NoTimer
    /\ timers = {}
    /\ mounted = FALSE
    /\ uuidCount = 0
    /\ calls = <<>>
    /\ reads = <<>>
    /\ burst = [changes |-> 0, writes |-> 0, written |-> Absent, failed |-> FALSE,
                clock |-> 0, trace |-> <<>>]
    /\ newCharName = <<>>
    /\ newCharDesc = <<>>
    /\ crashed = FALSE
    /\ players = [i \in 1..MaxChapters |-> FreshPlayer]
    /\ sources = {}
    /\ audioBuffer = NoBuffer
    /\ wavBlob = NoBlob

Store(p, l) == [k \in {PrimaryKey, LegacyKey} |-> IF k = PrimaryKey THEN p ELSE l]

\* Nothing has been handed to the codec.
CodecIdle == pcmData = <<>> /\ wavArgs = DownloadArgs

Init ==
    /\ InitMemory
    /\ CodecIdle
    /\ \E p \in PrimaryValues, l \in LegacyValues : storage = Store(p, l)

\* The store was written by this program, or never: the documents handlers
\* start from.
InitClean ==
    /\ Init
    /\ storage[LegacyKey] = Absent
    /\ storage[PrimaryKey] \in {Absent, JSONstringify(Document(<<SavedStory>>, <<SavedTool>>))}

\* Load, edits and the debounced save, with time passing.
NextSave ==
    \/ Mount
    \/ handleCreateNewStory
    \/ \E id \in Ids(stories) : SelectStory(id)
    \/ BackToLibrary
    \/ \E v \in PremiseValues : EditPremise(v)
    \/ \E toolId \in Ids(tools) : handleRemoveTool(toolId)
    \/ DismissError
    \/ \E t \in timers, ok \in BOOLEAN : WriteFires(t, ok)
    \/ \E t \in timers : IdleFires(t)
    \/ Tick

SpecSave == Init /\ [][NextSave]_vars

\* The browser runs every due timer callback and time does not stand still.
SpecSaveLive ==
    /\ SpecSave
    /\ WF_vars(Tick)
    /\ WF_vars(\E t \in timers, ok \in BOOLEAN : WriteFires(t, ok))
    /\ WF_vars(\E t \in timers : IdleFires(t))

\* Import beside edits and the debounced save.
NextImport ==
    \/ Mount
    \/ handleCreateNewStory
    \/ BackToLibrary
    \/ \E v \in PremiseValues : EditPremise(v)
    \/ \E f \in 1..Len(ImportFiles) : handleImport(f)
    \/ \E i \in 1..Len(reads) : ReaderOnload(i)
    \/ \E t \in timers, ok \in BOOLEAN : WriteFires(t, ok)
    \/ \E t \in timers : IdleFires(t)
    \/ Tick

SpecImport == InitClean /\ [][NextImport]_vars

\* Every handler that changes the document, inside one debounce window (no
\* handler reads the timers or the store, so the clock is left stopped).
NextDoc ==
    \/ Mount
    \/ handleCreateNewStory
    \/ \E id \in Ids(stories) : SelectStory(id)
    \/ BackToLibrary
    \/ \E v \in PremiseValues : EditPremise(v)
    \/ \E toolId \in Ids(tools) : handleRemoveTool(toolId)
    \/ handleGenerateConcept
    \/ \E v \in ToolPromptValues : SetNewToolPrompt(v)
    \/ handleCreateTool
    \/ \E i \in 1..Len(calls) : CallResolves(i)
    \/ \E i \in 1..Len(calls) : CallRejects(i)
    \/ \E f \in 1..Len(ImportFiles) : handleImport(f)
    \/ \E i \in 1..Len(reads) : ReaderOnload(i)

SpecDoc == InitClean /\ [][NextDoc]_vars

\* A story written in an earlier session: concept, one character and two
\* written chapters, not yet narrated.
DraftStory ==
    [NewStory("d1") EXCEPT !.premise = "p", !.title = "T", !.genre = "G",
                           !.summary = "S",
                           !.characters = <<[name |-> <<"z">>, description |-> <<"z">>]>>,
                           !.chapters = <<Chapter("c1", "x", NoAudio),
                                          Chapter("c2", "y", NoAudio)>>]

InitEditor ==
    /\ InitMemory
    /\ CodecIdle
    /\ storage = Store(JSONstringify(Document(<<DraftStory>>, <<>>)), Absent)

\* The character form of the editor.
NextForm ==
    \/ Mount
    \/ \E id \in Ids(stories) : SelectStory(id)
    \/ BackToLibrary
    \/ \E v \in FieldValues : setNewCharName(v)
    \/ \E v \in FieldValues : setNewCharDesc(v)
    \/ handleAddCharacter
    \/ \E i \in 1..MaxCharacters : handleRemoveCharacter(i)
    \/ DismissError

SpecForm == InitEditor /\ [][NextForm]_vars

\* The inputs of the codec: byte sequences over the extreme and middle byte
\* values, and header parameters around the ones the program passes.
ByteValues == {0, 1, 128, 255}

RECURSIVE ByteSeqs(_)
ByteSeqs(n) ==
    IF n = 0 THEN {<<>>}
    ELSE ByteSeqs(n - 1) \cup
            {Append(q, b) : q \in {x \in ByteSeqs(n - 1) : Len(x) = n - 1}, b \in ByteValues}

WavArgs == [sampleRate : {8000, 24000, 44100}, numChannels : {1, 2},
            bitsPerSample : {8, 12, 16}]

InitCodec ==
    /\ InitMemory
    /\ storage = Store(Absent, Absent)
    /\ pcmData \in ByteSeqs(MaxPcmLen)
    /\ wavArgs \in WavArgs

\* audioBufferRef.current = await decodeAudioData(decodedData, ctx)  (line 191)
DecodeAudioData ==
    /\ audioBuffer = NoBuffer
    /\ audioBuffer' = decodeAudioData(pcmData)
    /\ UNCHANGED <<appVars, formVars, crashed, playerVars, pcmData, wavArgs, wavBlob>>

\* const wavBlob = createWavBlob(pcmData, ...)  (line 442)
CreateWavBlob ==
    /\ wavBlob = NoBlob
    /\ wavBlob' = createWavBlob(pcmData, wavArgs.sampleRate, wavArgs.numChannels,
                                wavArgs.bitsPerSample)
    /\ UNCHANGED <<appVars, formVars, crashed, playerVars, pcmData, wavArgs, audioBuffer>>

NextCodec ==
    \/ DecodeAudioData
    \/ CreateWavBlob

SpecCodec == InitCodec /\ [][NextCodec]_vars

\* A story whose first chapter was narrated in an earlier session.
NarratedStory ==
    [DraftStory EXCEPT !.id = "n1",
                       !.chapters[1].audio = <<"A", "A", "A", "A", "g", "A", "=", "=">>]

InitPlayer ==
    /\ InitMemory
    /\ CodecIdle
    /\ \E story \in {DraftStory, NarratedStory} :
           storage = Store(JSONstringify(Document(<<story>>, <<>>)), Absent)

\* Narration and playback in the editor.
NextPlayer ==
    \/ Mount
    \/ \E id \in Ids(stories) : SelectStory(id)
    \/ \E chapterIndex \in 1..MaxChapters : handleNarrate(chapterIndex)
    \/ \E i \in 1..Len(calls) : CallResolves(i)
    \/ \E i \in 1..Len(calls) : CallRejects(i)
    \/ \E i \in 1..MaxChapters : togglePlay(i)
    \/ \E x \in sources : PlaybackFinishes(x)
    \/ \E x \in sources : SourceEnded(x)

SpecPlayer == InitPlayer /\ [][NextPlayer]_vars

\* A second stored story, with a concept and nothing else.
SecondStory ==
    [NewStory("e1") EXCEPT !.premise = "p", !.title = "T2", !.genre = "G2",
                           !.summary = "S2", !.authorName = "A2"]

InitSwitch ==
    /\ InitMemory
    /\ CodecIdle
    /\ storage = Store(JSONstringify(Document(<<DraftStory, SecondStory>>,
                                              <<SavedTool>>)), Absent)

\* Generation results arriving while the user moves between stories.
NextSwitch ==
    \/ Mount
    \/ \E id \in Ids(stories) : SelectStory(id)
    \/ BackToLibrary
    \/ handleGenerateConcept
    \/ handleGenerateSynopsis
    \/ \E i \in 1..Len(calls) : CallResolves(i)
    \/ \E i \in 1..Len(calls) : CallRejects(i)

SpecSwitch == InitSwitch /\ [][NextSwitch]_vars

\* Generation actions run through handleAction, several in flight.
NextGen ==
    \/ Mount
    \/ \E id \in Ids(stories) : SelectStory(id)
    \/ BackToLibrary
    \/ handleGenerateConcept
    \/ \E chapterIndex \in 1..MaxChapters : handleNarrate(chapterIndex)
    \/ \E v \in ToolPromptValues : SetNewToolPrompt(v)
    \/ handleCreateTool
    \/ \E i \in 1..Len(calls) : CallResolves(i)
    \/ \E i \in 1..Len(calls) : CallRejects(i)
    \/ DismissError

SpecGen == InitEditor /\ [][NextGen]_vars

(* ======================= debounced persistence ======================== *)
Memory == JSONstringify(Document(stories, tools))

CurrentDoc == [stories |-> stories, tools |-> tools]

\* C1: the changes made while a scheduled write is pending (so every change
\* that arrives less than 1000 ms after the previous one) lead to exactly one
\* setItem of 'ia-studio-data': none before the last change's timer fires, one
\* after, and its value is the serialization of the whole {stories, tools}
\* as of the last change.
C1_DebounceOneWrite ==
    burst.changes >= 1 =>
        /\ burst.writes <= 1
        /\ burst.writes = 0 =>
               /\ Cardinality(WriteTimers(timers)) = 1
               /\ \A t \in WriteTimers(timers) : t.doc = CurrentDoc
        /\ burst.writes = 1 =>
               /\ WriteTimers(timers) = {}
               /\ burst.written = Memory
               /\ ~burst.failed => storage[PrimaryKey] = Memory

C1_Witness ==
    /\ burst.changes >= 2
    /\ burst.writes = 1
    /\ ~burst.failed
    /\ Len(stories) >= 1
    /\ storage[PrimaryKey] = Memory

ExpectedStatuses == <<"idle", "saving", "saved", "idle">>

SingleChangeFromIdle ==
    /\ burst.changes = 1
    /\ ~burst.failed
    /\ burst.trace # <<>>
    /\ burst.trace[1].status = "idle"

\* C2: from idle, one change with no further change and a successful write
\* shows idle, saving, saved, idle in that order and nothing else: saving at
\* the change, saved when the write fires 1000 ms later, idle 2000 ms after.
C2_StatusSequence ==
    SingleChangeFromIdle =>
        LET n == Len(burst.trace)
        IN  /\ n <= 4
            /\ \A i \in 1..n : burst.trace[i].status = ExpectedStatuses[i]
            /\ saveStatus = burst.trace[n].status
            /\ n = 2 => Cardinality(WriteTimers(timers)) = 1 /\ IdleTimers(timers) = {}
            /\ n = 3 => Cardinality(IdleTimers(timers)) = 1 /\ WriteTimers(timers) = {}
            /\ n = 4 => timers = {}
            /\ burst.trace[2].at = 0
            /\ n >= 3 => /\ burst.trace[3].at >= SaveDelay
                         /\ burst.trace[3].at < SaveDelay + TickMs
            /\ n = 4 => /\ burst.trace[4].at - burst.trace[3].at >= IdleDelay
                        /\ burst.trace[4].at - burst.trace[3].at < IdleDelay + TickMs

C2_Witness ==
    /\ SingleChangeFromIdle
    /\ Len(burst.trace) = 4
    /\ saveStatus = "idle"
    /\ storage[PrimaryKey] = Memory

\* C3: at most one write timer is pending in any state, it is the one the
\* latest run of the effect scheduled, and no debounce window sees two writes.
C3_OnePendingWrite ==
    /\ Cardinality(WriteTimers(timers)) <= 1
    /\ \A t \in WriteTimers(timers) : t.id = effectTimer
    /\ burst.writes <= 1

C3_Witness ==
    /\ burst.changes >= 2
    /\ burst.writes = 0
    /\ Cardinality(WriteTimers(timers)) = 1

WriteFailedStep == burst'.writes > burst.writes /\ burst'.failed

\* C4: when setItem throws as the write fires, saveStatus goes from saving
\* straight to idle, the durable slot keeps its value, no saved -> idle timer
\* is scheduled and the error banner is left as it was.
C4_WriteFailureSilent ==
    [][WriteFailedStep =>
          /\ saveStatus = "saving"
          /\ saveStatus' = "idle"
          /\ storage' = storage
          /\ IdleTimers(timers') = {}
          /\ saveTimeoutRef' = saveTimeoutRef
          /\ error' = error]_vars

C4_Witness ==
    /\ burst.failed
    /\ burst.writes = 1
    /\ saveStatus = "idle"
    /\ timers = {}
    /\ storage[PrimaryKey] # burst.written

DocumentChanges == stories' # stories \/ tools' # tools

\* C10: the first run of the save effect schedules nothing - with nothing
\* loaded and no change, saveStatus stays idle, no timer is pending and the
\* slot is never written; every change of stories or tools leaves exactly one
\* pending write, of the new document, due in 1000 ms, with saveStatus saving.
C10_FirstRenderSkipped ==
    /\ [](mounted /\ burst.changes = 0 =>
              /\ saveStatus = "idle"
              /\ timers = {}
              /\ ~isInitialRender
              /\ burst.writes = 0
              /\ storage[PrimaryKey] \in {Absent, Corrupt})
    /\ [][DocumentChanges =>
              /\ saveStatus' = "saving"
              /\ IdleTimers(timers') = {}
              /\ Cardinality(WriteTimers(timers')) = 1
              /\ \A t \in WriteTimers(timers') :
                     /\ t.left = SaveDelay
                     /\ t.doc = [stories |-> stories', tools |-> tools']]_vars

C10_Witness ==
    /\ mounted
    /\ burst.changes = 1
    /\ storage[PrimaryKey] = Absent
    /\ stories # <<>>
    /\ saveStatus = "saving"
    /\ \E t \in WriteTimers(timers) : t.left = SaveDelay

(* ============================ documents =============================== *)
\* C5: no two entries of stories share an id and no two entries of tools
\* share an id, after any sequence of create, remove, edit, generation and
\* import operations on collections whose ids were unique.
C5_UniqueIds == UniqueIds(stories) /\ UniqueIds(tools)

\* The file whose read completes in this step.
ImportCompletes(f) ==
    \E i \in 1..Len(reads) : reads[i] = f /\ reads' = RemoveAt(reads, i)

Occurrences(coll, id) == Cardinality({j \in 1..Len(coll) : coll[j].id = id})

Appended(prev, next) == SubSeq(next, Len(prev) + 1, Len(next))

Elements(seq) == {seq[i] : i \in 1..Len(seq)}

\* What the claim asks of one collection when the file's array is `imported`.
FirstWriteWins(prev, next, imported) ==
    /\ Len(next) >= Len(prev)
    /\ SubSeq(next, 1, Len(prev)) = prev
    /\ \A e \in Elements(imported) :
           /\ e.id \in Ids(prev) => Occurrences(next, e.id) = Occurrences(prev, e.id)
           /\ e.id # "" /\ e.id \notin Ids(prev) => e \in Elements(Appended(prev, next))
           /\ e.id = "" => e \notin Elements(Appended(prev, next))
    /\ \A e \in Elements(Appended(prev, next)) : e \in Elements(imported)

\* C6: an import leaves every existing entry where and as it was; an imported
\* entry whose id is already present adds nothing; every imported entry with
\* a non-empty id not yet present is appended after the existing entries;
\* entries without id are dropped - for stories and for tools alike.
C6_ImportFirstWriteWins ==
    [][\A f \in 1..Len(ImportFiles) :
          ImportCompletes(f) /\ JSONparse(ImportFiles[f]).ok =>
              LET doc == JSONparse(ImportFiles[f]).value
              IN  /\ IF doc.stories.isArray
                     THEN FirstWriteWins(stories, stories', doc.stories.items)
                     ELSE stories' = stories
                  /\ IF doc.tools.isArray
                     THEN FirstWriteWins(tools, tools', doc.tools.items)
                     ELSE tools' = tools]_vars

C6_Witness ==
    /\ reads = <<>>
    /\ stories = <<SavedStory, ImportedB>>
    /\ tools = <<SavedTool>>

\* C7: when the imported file does not parse, the error banner is set and
\* stories and tools are what they were; nothing is merged and no write is
\* scheduled, cancelled or performed by the import.
C7_ImportAllOrNothing ==
    [][\A f \in 1..Len(ImportFiles) :
          ImportCompletes(f) /\ ~JSONparse(ImportFiles[f]).ok =>
              /\ error' = ImportErrorMsg
              /\ stories' = stories
              /\ tools' = tools
              /\ timers' = timers
              /\ saveStatus' = saveStatus
              /\ storage' = storage]_vars

C7_Witness ==
    /\ error = ImportErrorMsg
    /\ reads = <<>>
    /\ stories = <<SavedStory>>
    /\ timers = {}
    /\ storage[PrimaryKey] = Memory

(* ============================== load ================================== *)
MountStep == ~mounted /\ mounted'

IsJson(text) == text.kind = "json"

\* C8: on start, a primary slot that is present supplies stories and tools
\* and the legacy slot is not touched; with the primary slot absent and the
\* legacy slot present, the legacy stories are adopted and the legacy slot is
\* removed; the legacy slot, once absent, stays absent, so the migration
\* cannot happen again.
C8_LoadAndMigrate ==
    /\ [][MountStep =>
              /\ IsJson(storage[PrimaryKey]) =>
                     /\ stories' = storage[PrimaryKey].value.stories.items
                     /\ tools' = storage[PrimaryKey].value.tools.items
                     /\ storage' = storage
              /\ storage[PrimaryKey] = Absent /\ IsJson(storage[LegacyKey]) =>
                     /\ stories' = storage[LegacyKey].value.items
                     /\ tools' = <<>>
                     /\ storage'[LegacyKey] = Absent
                     /\ storage'[PrimaryKey] = Absent]_vars
    /\ [][storage[LegacyKey] = Absent => storage'[LegacyKey] = Absent]_vars

C8_Witness ==
    /\ mounted
    /\ stories = <<OldStory>>
    /\ storage[LegacyKey] = Absent
    /\ storage[PrimaryKey] = Absent

LoadParseFails ==
    \/ storage[PrimaryKey] = Corrupt
    \/ storage[PrimaryKey] = Absent /\ storage[LegacyKey] = Corrupt

\* C9: when the stored text does not parse on start, the error banner is
\* set, stories and tools stay empty, and the load neither removes nor
\* overwrites any slot.
C9_LoadParseFailure ==
    [][MountStep /\ LoadParseFails =>
          /\ error' = LoadErrorMsg
          /\ stories' = <<>>
          /\ tools' = <<>>
          /\ storage' = storage
          /\ timers' = {}
          /\ saveStatus' = "idle"]_vars

C9_Witness ==
    /\ mounted
    /\ error = LoadErrorMsg
    /\ stories = <<>>
    /\ tools = <<>>
    /\ storage[PrimaryKey] = Absent
    /\ storage[LegacyKey] = Corrupt

(* ===================== saved -> idle cancellation ===================== *)
\* C11: a change made while saveStatus is saved cancels the pending
\* saved -> idle timer and shows saving; while a write is pending no idle
\* timer is pending and the status is saving, and the status only returns to
\* idle in a step that leaves no write pending.
C11_IdleCancelledByChange ==
    /\ [](WriteTimers(timers) # {} =>
              /\ IdleTimers(timers) = {}
              /\ saveStatus = "saving")
    /\ [][saveStatus = "saved" /\ DocumentChanges =>
              /\ saveStatus' = "saving"
              /\ IdleTimers(timers') = {}
              /\ Cardinality(WriteTimers(timers')) = 1]_vars
    /\ [][saveStatus # "idle" /\ saveStatus' = "idle" =>
              WriteTimers(timers') = {}]_vars

C11_Witness ==
    /\ burst.trace # <<>>
    /\ burst.trace[1].status = "saved"
    /\ Len(burst.trace) = 4
    /\ burst.trace[3].status = "saved"
    /\ saveStatus = "idle"
    /\ timers = {}

(* =========================== character form =========================== *)
Characters == IF HasActiveStory THEN activeStory.characters ELSE <<>>

\* A text is non-empty after trimming iff it has a character that is not whitespace.
HasInk(str) == \E k \in 1..Len(str) : str[k] \notin Whitespace

ValidCharacter == HasInk(newCharName) /\ HasInk(newCharDesc)

\* C13: submitting the character form with a name or a description that is
\* empty after trimming sets the error and leaves stories, the character list
\* and both fields as they were; otherwise exactly one character, made of the
\* two fields as typed, is appended at the end of the active story's list,
\* nothing else in stories changes, and both fields are cleared.
C13_AddCharacterValidated ==
    [][handleAddCharacter =>
          IF ValidCharacter
          THEN /\ Characters' = Append(Characters, [name |-> newCharName,
                                                    description |-> newCharDesc])
               /\ Len(stories') = Len(stories)
               /\ \A i \in 1..Len(stories) :
                      /\ stories'[i].id = stories[i].id
                      /\ stories[i].id # activeStoryId => stories'[i] = stories[i]
                      /\ \A f \in DOMAIN stories[i] \ {"characters"} :
                             stories'[i][f] = stories[i][f]
               /\ newCharName' = <<>>
               /\ newCharDesc' = <<>>
               /\ error' = error
          ELSE /\ error' = CharacterErrorMsg
               /\ stories' = stories
               /\ newCharName' = newCharName
               /\ newCharDesc' = newCharDesc]_vars

\* A character whose fields carry surrounding whitespace was appended as typed
\* after the stored one, and a blank submission has been refused.
C13_Witness ==
    /\ HasActiveStory
    /\ Len(Characters) = 2
    /\ Characters[1] = DraftStory.characters[1]
    /\ Characters[2].name = <<" ", "b", "\n">>
    /\ error = CharacterErrorMsg
    /\ newCharName = <<" ">>

(* ========================= generation failures ======================== *)
\* C14: when the call awaited by handleAction fails, the collaborator has
\* been invoked once for it and is not invoked again, the error becomes the
\* fixed message of that operation, loading becomes null, and stories and
\* tools stay as they were.
C14_FailureIsTerminal ==
    /\ [](\A k \in 1..Len(calls) : calls[k].attempts = 1)
    /\ [][\A i \in 1..Len(calls) :
              CallRejects(i) =>
                  /\ calls' = RemoveAt(calls, i)
                  /\ error' = (CASE calls[i].type = "concept" -> ConceptErrorMsg
                                 [] calls[i].type = "audio" -> NarrationErrorMsg
                                 [] calls[i].type = "tool_analysis" -> ToolErrorMsg)
                  /\ loading' = NotLoading
                  /\ stories' = stories
                  /\ tools' = tools]_vars

\* A narration failed while another call was still in flight.
C14_Witness ==
    /\ error = NarrationErrorMsg
    /\ loading = NotLoading
    /\ Len(calls) = 1
    /\ stories = <<DraftStory>>

(* ========================== documents are kept ======================== *)
\* C19: no step removes a story id from stories, and a step removes a tool id
\* from tools only if it is handleRemoveTool on that id.
C19_DocumentsNeverDropped ==
    [][/\ Ids(stories) \subseteq Ids(stories')
       /\ \A id \in Ids(tools) \ Ids(tools') : handleRemoveTool(id)]_vars

\* After load, an explicit tool removal, a creation and a concept generation
\* both stories are still there.
C19_Witness ==
    /\ storage[PrimaryKey] = JSONstringify(Document(<<SavedStory>>, <<SavedTool>>))
    /\ tools = <<>>
    /\ Ids(stories) = {"s1", "u1"}
    /\ \E i \in 1..Len(stories) : stories[i].title = ConceptResult.title

(* ============================= audio codec ============================ *)
\* The signed 16-bit value of two bytes, low byte first.
IsInt16LE(v, lo, hi) ==
    /\ v \in -32768..32767
    /\ (v - (lo + 256 * hi)) % 65536 = 0

\* C15: decodeAudioData on an even-length byte sequence, the empty one
\* included, raises no error and yields a mono 24000 Hz buffer of len/2
\* samples, sample i being the signed little-endian 16-bit integer at bytes
\* 2i, 2i+1 divided by 32768; bytes 00 00 00 80 give samples 0 and -1.
C15_DecodeEvenLength ==
    (audioBuffer # NoBuffer /\ Len(pcmData) % 2 = 0) =>
        /\ audioBuffer.kind = "buffer"
        /\ audioBuffer.numberOfChannels = 1
        /\ audioBuffer.sampleRate = 24000
        /\ audioBuffer.length = Len(pcmData) \div 2
        /\ Len(audioBuffer.channelData) = Len(pcmData) \div 2
        /\ \A i \in 1..(Len(pcmData) \div 2) :
               /\ audioBuffer.channelData[i].den = 32768
               /\ IsInt16LE(audioBuffer.channelData[i].num,
                            pcmData[2 * i - 1], pcmData[2 * i])
        /\ pcmData = <<0, 0, 0, 128>> =>
               /\ audioBuffer.channelData[1].num = 0
               /\ audioBuffer.channelData[2].num = -audioBuffer.channelData[2].den

\* The unsigned little-endian fields of a byte stream at a 0-based offset.
U16At(bytes, offset) == bytes[offset + 1] + 256 * bytes[offset + 2]

U32At(bytes, offset) ==
    bytes[offset + 1] + 256 * bytes[offset + 2] + 65536 * bytes[offset + 3]
        + 16777216 * bytes[offset + 4]

BytesAt(bytes, offset, n) == SubSeq(bytes, offset + 1, offset + n)

\* C16: the stream createWavBlob makes is 44 + len(pcm) bytes long, carries
\* the tags RIFF, WAVE, "fmt " and data at offsets 0, 8, 12 and 36, and its
\* 32-bit fields at offsets 4 and 40 are 36 + len(pcm) and len(pcm).
C16_WavLayout ==
    wavBlob # NoBlob =>
        /\ Len(wavBlob.bytes) = 44 + Len(pcmData)
        /\ BytesAt(wavBlob.bytes, 0, 4) = <<82, 73, 70, 70>>
        /\ BytesAt(wavBlob.bytes, 8, 4) = <<87, 65, 86, 69>>
        /\ BytesAt(wavBlob.bytes, 12, 4) = <<102, 109, 116, 32>>
        /\ BytesAt(wavBlob.bytes, 36, 4) = <<100, 97, 116, 97>>
        /\ U32At(wavBlob.bytes, 4) = 36 + Len(pcmData)
        /\ U32At(wavBlob.bytes, 40) = Len(pcmData)

C16_Witness ==
    /\ wavBlob # NoBlob
    /\ pcmData = <<1, 0, 255>>
    /\ Len(wavBlob.bytes) = 47

\* C17: the bytes of the stream from offset 44 on are the PCM bytes handed
\* in, in the same order, whatever the header parameters.
C17_WavRoundTrip ==
    wavBlob # NoBlob =>
        BytesAt(wavBlob.bytes, 44, Len(wavBlob.bytes) - 44) = pcmData

C17_Witness ==
    /\ wavBlob # NoBlob
    /\ pcmData = <<1, 128, 255, 0>>
    /\ wavArgs = [sampleRate |-> 44100, numChannels |-> 2, bitsPerSample |-> 12]
    /\ BytesAt(wavBlob.bytes, 44, 4) = <<1, 128, 255, 0>>

\* C18: with bitsPerSample a multiple of 8 the header fields are 16 at offset
\* 16, 1 at 20, numChannels at 22, sampleRate at 24, blockAlign =
\* numChannels * bitsPerSample / 8 at 32, byteRate = sampleRate * blockAlign
\* at 28 and bitsPerSample at 34; for (24000, 1, 16) byteRate is 48000 and
\* blockAlign is 2.
C18_WavFormatFields ==
    (wavBlob # NoBlob /\ wavArgs.bitsPerSample % 8 = 0) =>
        /\ U32At(wavBlob.bytes, 16) = 16
        /\ U16At(wavBlob.bytes, 20) = 1
        /\ U16At(wavBlob.bytes, 22) = wavArgs.numChannels
        /\ U32At(wavBlob.bytes, 24) = wavArgs.sampleRate
        /\ 8 * U16At(wavBlob.bytes, 32) = wavArgs.numChannels * wavArgs.bitsPerSample
        /\ U32At(wavBlob.bytes, 28) = wavArgs.sampleRate * U16At(wavBlob.bytes, 32)
        /\ U16At(wavBlob.bytes, 34) = wavArgs.bitsPerSample
        /\ wavArgs = [sampleRate |-> 24000, numChannels |-> 1, bitsPerSample |-> 16] =>
               /\ U32At(wavBlob.bytes, 28) = 48000
               /\ U16At(wavBlob.bytes, 32) = 2

C18_Witness ==
    /\ wavBlob # NoBlob
    /\ wavArgs = DownloadArgs
    /\ pcmData = <<1, 0>>
    /\ U32At(wavBlob.bytes, 28) = 48000

(* ============================= AudioPlayer ============================ *)
\* The nodes a rendered player started that have not ended.
Sounding(i) == {x \in sources : x.index = i /\ ~x.orphan /\ x.state = "playing"}

\* C12: for each AudioPlayer, at most one source it started is playing.
C12_OneSourcePerPlayer ==
    \A i \in DOMAIN players : Cardinality(Sounding(i)) <= 1

\* C20: a source that is started plays the decoding of the payload the
\* chapter of its player holds at that moment.
C20_BufferMatchesPayload ==
    [][\A x \in sources' \ sources :
           x.state = "playing" =>
               x.buffer = decodeAudioData(decode(
                              StoryOf(stories, x.storyId).chapters[x.index].audio))]_vars

\* The node a player's sourceRef holds, if it is still alive.
CurrentSources(i) ==
    {x \in sources : x.id = players[i].sourceRef /\ x.index = i /\ ~x.orphan}

IsNarrating(storyId, i) ==
    /\ HasStory(stories, storyId)
    /\ i \in 1..Len(StoryOf(stories, storyId).chapters)
    /\ StoryOf(stories, storyId).chapters[i].isNarrating

\* C21: a player is Playing while its most recently started source plays,
\* and is Playing only if that source has not been halted and its ended
\* callback has not run; when the ended callback of that source runs after
\* it played to its end the player is Stopped and the chapter's flag is
\* false; when the user toggles a Playing player its source is halted and
\* the chapter's flag is false after that same step.
C21_PlayerFollowsSource ==
    /\ [](\A i \in DOMAIN players :
              /\ (\E x \in CurrentSources(i) : x.state = "playing")
                     => players[i].isPlaying
              /\ players[i].isPlaying
                     => \E x \in CurrentSources(i) : x.state \in {"playing", "finished"})
    /\ [][\A x \in sources :
              (SourceEnded(x) /\ x.state = "finished" /\ x \in CurrentSources(x.index)) =>
                  /\ ~players'[x.index].isPlaying
                  /\ ~IsNarrating(x.storyId, x.index)']_vars
    /\ [][\A i \in DOMAIN players :
              (togglePlay(i) /\ players[i].isPlaying) =>
                  /\ ~players'[i].isPlaying
                  /\ \A x \in CurrentSources(i)' : x.state # "playing"
                  /\ ~IsNarrating(activeStoryId, i)']_vars

\* C22: the isNarrating flag of each chapter of the story in the editor is
\* true exactly when that chapter's player is Playing.
C22_FlagPerChapter ==
    (mounted /\ HasActiveStory) =>
        \A i \in 1..Len(activeStory.chapters) :
            activeStory.chapters[i].isNarrating <=> players[i].isPlaying

\* Two chapters' players are Playing and only the second one's flag is set.
C22_EarlierFlagCleared ==
    /\ mounted /\ HasActiveStory
    /\ Len(activeStory.chapters) = 2
    /\ players[1].isPlaying /\ players[2].isPlaying
    /\ \E x \in CurrentSources(1) : x.state = "playing"
    /\ ~activeStory.chapters[1].isNarrating
    /\ activeStory.chapters[2].isNarrating

(* ========================== loading indicator ========================= *)
\* The loading target handleAction sets for a call (line 340).
TargetOf(call) ==
    IF call.type = "audio" THEN [type |-> call.type, index |-> call.index]
    ELSE [type |-> call.type]

\* C23: while calls are in flight loading is not null, it holds the target
\* of the call in flight when there is exactly one, and it becomes null only
\* in a step in which a call with that target settles.
C23_LoadingFollowsCall ==
    /\ [](~crashed =>
              /\ calls # <<>> => loading # NotLoading
              /\ Len(calls) = 1 => loading = TargetOf(calls[1]))
    /\ [][(loading # NotLoading /\ loading' = NotLoading) =>
              \E i \in 1..Len(calls) :
                  /\ TargetOf(calls[i]) = loading
                  /\ calls' = RemoveAt(calls, i)]_vars

(* ======================== odd-length PCM input ======================== *)
\* C24: decodeAudioData on an odd-length byte sequence raises no error and
\* yields floor(len/2) samples decoded from the first 2*floor(len/2) bytes.
C24_DecodeOddLength ==
    (audioBuffer # NoBuffer /\ Len(pcmData) % 2 = 1) =>
        /\ audioBuffer.kind = "buffer"
        /\ audioBuffer.length = Len(pcmData) \div 2
        /\ Len(audioBuffer.channelData) = Len(pcmData) \div 2
        /\ \A i \in 1..(Len(pcmData) \div 2) :
               /\ audioBuffer.channelData[i].den = 32768
               /\ IsInt16LE(audioBuffer.channelData[i].num,
                            pcmData[2 * i - 1], pcmData[2 * i])

(* ========================= saved means stored ========================= *)
\* C26: whenever saveStatus is saved, the primary slot holds the
\* serialization of the stories and tools in memory.
C26_SavedMeansStored ==
    saveStatus = "saved" => storage[PrimaryKey] = Memory

\* A second window of changes was written: the slot already held a document
\* and now holds the later one.
C26_Witness ==
    /\ saveStatus = "saved"
    /\ Len(stories) = 2
    /\ storage[PrimaryKey] = JSONstringify(Document(stories, tools))
    /\ burst.writes = 1
    /\ burst.changes = 2

(* ====================== persistence catches up ======================== *)
CaughtUp ==
    /\ storage[PrimaryKey] = Memory
    /\ saveStatus = "idle"
    /\ timers = {}

\* C25: if from some point on stories and tools no longer change, then from
\* some point on, unless the write of the last change failed, the primary
\* slot holds the serialization of the stories and tools in memory, no timer
\* is pending and saveStatus is idle; and saveStatus leaves idle only in a
\* step that changes stories or tools.
C25_EventuallyPersisted ==
    /\ <>[][~DocumentChanges]_vars =>
           <>[]((burst.changes > 0 /\ ~burst.failed) => CaughtUp)
    /\ [][(saveStatus = "idle" /\ saveStatus' # "idle") => DocumentChanges]_vars

\* Two changes were written in one go and the status is back to idle.
C25_Witness ==
    /\ CaughtUp
    /\ burst.changes = 2
    /\ burst.writes = 1
    /\ ~burst.failed
    /\ Len(stories) = 2

(* ========================= migration durability ======================= *)
\* The stories a slot's text holds.
StoriesInLegacySlot ==
    IF storage[LegacyKey].kind = "json" THEN storage[LegacyKey].value.items ELSE <<>>

StoriesInPrimarySlot ==
    IF storage[PrimaryKey].kind = "json" /\ storage[PrimaryKey].value.stories.isArray
    THEN storage[PrimaryKey].value.stories.items
    ELSE <<>>

\* C27: once the stories of the legacy slot have been loaded into memory,
\* they are at every moment present in the legacy slot or in the primary
\* slot, so that a process stop at that moment does not lose them.
C27_MigrationKeepsDurableCopy ==
    \A i \in 1..Len(stories) :
        stories[i].id = OldStory.id =>
            \/ OldStory.id \in Ids(StoriesInLegacySlot)
            \/ OldStory.id \in Ids(StoriesInPrimarySlot)

(* ====================== results and their story ======================= *)
\* C28: when a generation result arrives, the story that was active when
\* the action was triggered receives it, whichever story is active now, and
\* every other story is left as it was.
C28_ResultGoesToInitiator ==
    [][\A i \in 1..Len(calls) :
           (CallResolves(i) /\ calls[i].type \in {"concept", "synopsis"}) =>
               /\ Len(stories') = Len(stories)
               /\ \A k \in 1..Len(stories) :
                      IF stories[k].id = calls[i].storyId
                      THEN /\ stories'[k].id = stories[k].id
                           /\ calls[i].type = "synopsis" =>
                                  stories'[k].synopsis = SynopsisResult
                           /\ calls[i].type = "concept" =>
                                  stories'[k].title = ConceptResult.title
                      ELSE stories'[k] = stories[k]]_vars

\* A synopsis asked for in the first story's editor is in that story while
\* the second story, still without synopsis, is the one in the editor.
C28_Witness ==
    /\ activeStoryId = SecondStory.id
    /\ calls = <<>>
    /\ StoryOf(stories, DraftStory.id).synopsis = SynopsisResult
    /\ StoryOf(stories, SecondStory.id) = SecondStory

\* C29: when the result of a chapter-level call for chapter i arrives, the
\* story has a chapter i, that chapter's field is set and every other
\* chapter, and every other field of that chapter, is unchanged.
C29_ChapterResultHasTarget ==
    [][\A i \in 1..Len(calls) :
           (CallResolves(i) /\ calls[i].type = "audio") =>
               LET before == StoryOf(stories, calls[i].storyId).chapters
                   after == StoryOf(stories', calls[i].storyId).chapters
               IN  /\ ~crashed'
                   /\ calls[i].index \in 1..Len(before)
                   /\ Len(after) = Len(before)
                   /\ after[calls[i].index].audio \in AudioPayloads
                   /\ \A c \in 1..Len(before) :
                          /\ c # calls[i].index => after[c] = before[c]
                          /\ \A f \in DOMAIN before[c] \ {"audio"} :
                                 after[c][f] = before[c][f]]_vars

\* C30: a successful concept generation sets title, genre and summary of
\* the initiating story from the result, empties its chapters and tags,
\* sets its synopsis and description to '', keeps all its other fields, and
\* leaves the other stories and the tools as they were.
C30_ConceptFrame ==
    [][\A i \in 1..Len(calls) :
           (CallResolves(i) /\ calls[i].type = "concept") =>
               /\ tools' = tools
               /\ Len(stories') = Len(stories)
               /\ \A k \in 1..Len(stories) :
                      IF stories[k].id = calls[i].storyId
                      THEN /\ stories'[k].title = ConceptResult.title
                           /\ stories'[k].genre = ConceptResult.genre
                           /\ stories'[k].summary = ConceptResult.summary
                           /\ stories'[k].chapters = <<>>
                           /\ stories'[k].synopsis = ""
                           /\ stories'[k].description = ""
                           /\ stories'[k].tags = <<>>
                           /\ \A f \in {"id", "premise", "authorName", "characters",
                                        "coverImage", "userCoverImage",
                                        "userCoverImageMimeType", "chapterCount",
                                        "wordCount"} :
                                  stories'[k][f] = stories[k][f]
                      ELSE stories'[k] = stories[k]]_vars

\* The draft's concept was generated again after a synopsis had been made for
\* both stories: its chapters and synopsis are gone, its characters are kept,
\* and the second story and the tool are untouched.
C30_Witness ==
    /\ Len(stories) = 2
    /\ StoryOf(stories, DraftStory.id).chapters = <<>>
    /\ StoryOf(stories, DraftStory.id).synopsis = ""
    /\ StoryOf(stories, DraftStory.id).characters = DraftStory.characters
    /\ StoryOf(stories, DraftStory.id).genre = ConceptResult.genre
    /\ StoryOf(stories, SecondStory.id) = [SecondStory EXCEPT !.synopsis = SynopsisResult]
    /\ tools = <<SavedTool>>
    /\ calls = <<>>

====
